---- MODULE Spec2Model ----
(***************************************************************************)
(* A model of dspacearchive.py: class DspaceArchive, which parses a        *)
(* semicolon-delimited file into items and writes them as a DSpace Simple  *)
(* Archive (one directory per item: contents, collections, copied          *)
(* bitstreams and one metadata file per schema).                           *)
(*                                                                         *)
(* Text is modelled as sequences of one-character strings, so stripping,   *)
(* splitting, CSV parsing, file naming and the manifests are computed      *)
(* character by character as the code computes them.                      *)
(***************************************************************************)
EXTENDS Integers, Sequences, FiniteSets, TLC

VARIABLES
    input,      \* the lines of the file at input_path, without the line ends
    pc,         \* where the program is: "new", "parsing", "ctor_failed", "ready",
                \* a stage of write's loop body, "done" or "failed"
    header,     \* the header record read by next(reader)
    rows,       \* the records the reader has still to yield
    items,      \* self.items
    idx,        \* 1-based position of the item write's loop is at (index + 1)
    fs,         \* the output file system: fs.dirs the directories that exist (<<>> is
                \* the output root), fs.files the regular files, path |-> content
    fs0,        \* fs when the current call of write began
    written,    \* the files the current call of write has written: path |-> content
    handles,    \* the file objects opened by the writer and not closed
    events,     \* what the current call of write has done so far, in order
    failure,    \* why the current call of write raised, "" when it has not
    run         \* "first" or "second": which call of write on this archive

vars == <<input, pc, header, rows, items, idx, fs, fs0,
          written, handles, events, failure, run>>

(***************************************************************************)
(* Bounds                                                                  *)
(***************************************************************************)
\* the input file has at most MaxLines lines
MaxLines == 3

(***************************************************************************)
(* Text                                                                    *)
(***************************************************************************)
NL == "\n"
\* the characters str.strip() removes that occur in the model
Whitespace == {" ", NL}

RECURSIVE Concat(_)
\* "".join(seqs)
Concat(seqs) ==
    IF seqs = <<>> THEN <<>> ELSE Head(seqs) \o Concat(Tail(seqs))

\* the position of the first occurrence of c in s, Len(s) + 1 when there is none
FirstIndex(s, c) ==
    IF \E k \in 1..Len(s) : s[k] = c
    THEN CHOOSE k \in 1..Len(s) : s[k] = c /\ \A j \in 1..(k - 1) : s[j] # c
    ELSE Len(s) + 1

\* row.split('#')[0]
SplitFirst(s, c) == SubSeq(s, 1, FirstIndex(s, c) - 1)

RECURSIVE LStrip(_)
LStrip(s) ==
    IF s # <<>> /\ Head(s) \in Whitespace THEN LStrip(Tail(s)) ELSE s

RECURSIVE RStrip(_)
RStrip(s) ==
    IF s # <<>> /\ s[Len(s)] \in Whitespace
    THEN RStrip(SubSeq(s, 1, Len(s) - 1)) ELSE s

\* str.strip()
Strip(s) == RStrip(LStrip(s))

(***************************************************************************)
(* Reading the input: file iteration, strip_csv_comments, csv.reader       *)
(***************************************************************************)
\* iterating an open text file yields each line with its line end
FileRows(file) == [i \in 1..Len(file) |-> file[i] \o <<NL>>]

\* as Raw, without the cut at the marker
RawNoTruncate(row) == Strip(row)

\* the value strip_csv_comments computes for one row of the file
Raw(row) == Strip(SplitFirst(row, "#"))

RECURSIVE StripCsvCommentsRows(_)
StripCsvCommentsRows(rs) ==
    IF rs = <<>> THEN <<>>
    ELSE LET raw == Raw(Head(rs))
         IN  (IF raw # <<>> THEN <<raw>> ELSE <<>>) \o StripCsvCommentsRows(Tail(rs))

\* strip_csv_comments(file): the rows it yields, in order
strip_csv_comments(file) == StripCsvCommentsRows(FileRows(file))

Delimiter == ";"
QuoteChar == "\""

\* csv.reader's parser (dialect excel with delimiter ";", not strict): one
\* character c in parser state p = [st, field, fields].  The lines it is given
\* are stripped, so they hold no line end and EAT_CRNL is never entered.
ProcessChar(p, c) ==
    CASE p.st \in {"START_RECORD", "START_FIELD"} ->
            IF c = QuoteChar THEN [p EXCEPT !.st = "IN_QUOTED_FIELD"]
            ELSE IF c = Delimiter
                 THEN [p EXCEPT !.st = "START_FIELD",
                                !.fields = Append(@, p.field), !.field = <<>>]
                 ELSE [p EXCEPT !.st = "IN_FIELD", !.field = Append(@, c)]
      [] p.st = "IN_FIELD" ->
            IF c = Delimiter
            THEN [p EXCEPT !.st = "START_FIELD",
                           !.fields = Append(@, p.field), !.field = <<>>]
            ELSE [p EXCEPT !.field = Append(@, c)]
      [] p.st = "IN_QUOTED_FIELD" ->
            IF c = QuoteChar THEN [p EXCEPT !.st = "QUOTE_IN_QUOTED_FIELD"]
            ELSE [p EXCEPT !.field = Append(@, c)]
      [] p.st = "QUOTE_IN_QUOTED_FIELD" ->
            IF c = QuoteChar
            THEN [p EXCEPT !.st = "IN_QUOTED_FIELD", !.field = Append(@, c)]
            ELSE IF c = Delimiter
                 THEN [p EXCEPT !.st = "START_FIELD",
                                !.fields = Append(@, p.field), !.field = <<>>]
                 ELSE [p EXCEPT !.st = "IN_FIELD", !.field = Append(@, c)]

\* the parser at the end of a line
ProcessEOL(p) ==
    CASE p.st = "START_RECORD" -> p
      [] p.st = "IN_QUOTED_FIELD" -> p
      [] OTHER -> [p EXCEPT !.st = "START_RECORD",
                            !.fields = Append(@, p.field), !.field = <<>>]

RECURSIVE ProcessChars(_, _)
ProcessChars(p, line) ==
    IF line = <<>> THEN p ELSE ProcessChars(ProcessChar(p, Head(line)), Tail(line))

ParseReset == [st |-> "START_RECORD", field |-> <<>>, fields |-> <<>>]

RECURSIVE ReadRecords(_, _)
\* list(csv.reader(lines, delimiter=";")), p the parser state between lines:
\* a record ends at the end of a line unless a quoted field is open there, and
\* an open quoted field at the end of the input ends the last record
ReadRecords(p, lines) ==
    IF lines = <<>>
    THEN IF p.st = "IN_QUOTED_FIELD" THEN <<Append(p.fields, p.field)>> ELSE <<>>
    ELSE LET q == ProcessEOL(ProcessChars(p, Head(lines)))
         IN  IF q.st = "START_RECORD"
             THEN <<q.fields>> \o ReadRecords(ParseReset, Tail(lines))
             ELSE ReadRecords(q, Tail(lines))

CsvReader(lines) == ReadRecords(ParseReset, lines)

(***************************************************************************)
(* ItemFactory and Item (itemfactory.py and item.py are not among the      *)
(* sources: modelled from the specification, sections 3 and 4.1)           *)
(***************************************************************************)
FILE == <<"f", "i", "l", "e">>
COLLECTION == <<"c", "o", "l", "l", "e", "c", "t", "i", "o", "n">>

\* how a column of the header is classified by its name
Classify(name) ==
    IF name = FILE THEN "file"
    ELSE IF name = COLLECTION THEN "collection"
    ELSE IF \E k \in 1..Len(name) : name[k] = "." THEN "metadata"
    ELSE "unknown"

\* "dc.title" -> schema "dc", field "title"
SchemaOf(name) == SplitFirst(name, ".")
FieldOf(name) == SubSeq(name, FirstIndex(name, ".") + 1, Len(name))

\* ItemFactory(header) fails loudly on a column it cannot classify
HeaderOK(hdr) == \A k \in 1..Len(hdr) : Classify(hdr[k]) # "unknown"

\* a row with fewer fields than the header is a data error
RowOK(hdr, row) == Len(row) >= Len(hdr)

RECURSIVE SelectValues(_, _, _)
\* the values of the columns of kind `kind`, in column order
SelectValues(hdr, row, kind) ==
    IF hdr = <<>> THEN <<>>
    ELSE (IF Classify(Head(hdr)) = kind THEN <<Head(row)>> ELSE <<>>)
         \o SelectValues(Tail(hdr), Tail(row), kind)

RECURSIVE SelectMetadata(_, _)
SelectMetadata(hdr, row) ==
    IF hdr = <<>> THEN <<>>
    ELSE (IF Classify(Head(hdr)) = "metadata"
          THEN <<[schema |-> SchemaOf(Head(hdr)), field |-> FieldOf(Head(hdr)),
                  value |-> Head(row)]>>
          ELSE <<>>)
         \o SelectMetadata(Tail(hdr), Tail(row))

\* item_factory.newItem(row)
NewItem(hdr, row) ==
    [files |-> SelectValues(hdr, row, "file"),
     collections |-> SelectValues(hdr, row, "collection"),
     metadata |-> SelectMetadata(hdr, row)]

\* os.path.basename
Basename(path) ==
    IF \E k \in 1..Len(path) : path[k] = "/"
    THEN LET last == CHOOSE k \in 1..Len(path) :
                        path[k] = "/" /\ \A j \in (k + 1)..Len(path) : path[j] # "/"
         IN  SubSeq(path, last + 1, Len(path))
    ELSE path

\* item.getFilePaths(): the references, relative to the input's directory
getFilePaths(item) == item.files
\* item.getFiles(): the file names of the references
getFiles(item) == [k \in 1..Len(item.files) |-> Basename(item.files[k])]
\* item.getCollections()
getCollections(item) == item.collections

RECURSIVE Distinct(_, _)
Distinct(seq, seen) ==
    IF seq = <<>> THEN <<>>
    ELSE IF Head(seq) \in seen THEN Distinct(Tail(seq), seen)
    ELSE <<Head(seq)>> \o Distinct(Tail(seq), seen \cup {Head(seq)})

\* item.getUsedSchemas(): the schemas of the item's fields, each once
getUsedSchemas(item) ==
    Distinct([k \in 1..Len(item.metadata) |-> item.metadata[k].schema], {})

\* item.toXML(schema): the fields of the schema, in the item's field order
toXML(item, schema) ==
    Concat([k \in 1..Len(item.metadata) |->
              IF item.metadata[k].schema = schema
              THEN item.metadata[k].field \o <<"=">> \o item.metadata[k].value \o <<NL>>
              ELSE <<>>])

(***************************************************************************)
(* The writer's names and texts                                            *)
(***************************************************************************)
\* the field width of "%03d"
PadWidth == 3

Digit(d) == <<"0", "1", "2", "3", "4", "5", "6", "7", "8", "9">>[d + 1]

RECURSIVE Decimal(_)
\* str(n) for n >= 0
Decimal(n) == IF n < 10 THEN <<Digit(n)>> ELSE Decimal(n \div 10) \o <<Digit(n % 10)>>

RECURSIVE ZeroPad(_, _)
ZeroPad(s, width) == IF Len(s) >= width THEN s ELSE ZeroPad(<<"0">> \o s, width)

\* as ItemDirName, numbering from the 0-based index itself
ItemDirNameZeroBased(index) ==
    <<"i", "t", "e", "m", "_">> \o ZeroPad(Decimal(index), PadWidth)

\* name = "item_%03d" % (int(index) + 1), index the 0-based position
ItemDirName(index) ==
    <<"i", "t", "e", "m", "_">> \o ZeroPad(Decimal(index + 1), PadWidth)

CONTENTS == <<"c", "o", "n", "t", "e", "n", "t", "s">>
COLLECTIONS == <<"c", "o", "l", "l", "e", "c", "t", "i", "o", "n", "s">>
DC == <<"d", "c">>
DUBLIN_CORE_XML ==
    <<"d", "u", "b", "l", "i", "n", "_", "c", "o", "r", "e", ".", "x", "m", "l">>

\* as XmlFilename, without the special case of "dc"
XmlFilenameNoDc(schema) ==
    <<"m", "e", "t", "a", "d", "a", "t", "a", "_">> \o schema \o <<".", "x", "m", "l">>

\* xml_filename of writeMetadata
XmlFilename(schema) ==
    IF schema = DC THEN DUBLIN_CORE_XML
    ELSE <<"m", "e", "t", "a", "d", "a", "t", "a", "_">> \o schema
         \o <<".", "x", "m", "l">>

\* os.path.join(dir, name), below the output root: the path's components
ItemPath(index) == <<ItemDirName(index)>>
\* os.path.join(item_path, name)
Join(item_path, name) == Append(item_path, name)

\* as ManifestChunk, never writing the "\n"
ManifestChunkNoNewline(list, index) == list[index + 1]

\* as ManifestChunk, with the guard index < len(list) - 1
ManifestChunkNotLast(list, index) ==
    list[index + 1] \o (IF index < Len(list) - 1 THEN <<NL>> ELSE <<>>)

\* what one pass of the manifest loops writes for the entry at 0-based index:
\* the entry, then "\n" if index < len(list)
ManifestChunk(list, index) ==
    list[index + 1] \o (IF index < Len(list) THEN <<NL>> ELSE <<>>)

\* the text the manifest loop has written after its first n passes
ManifestText(list, n) == Concat([k \in 1..n |-> ManifestChunk(list, k - 1)])

(***************************************************************************)
(* The file system                                                         *)
(***************************************************************************)
\* the files that exist in the directory of the input file, and their data
ExistingSources == {<<"a">>}
SourceData(name) == <<"@">> \o name


Empty == [p \in {} |-> <<>>]

\* open(path, "w"), the writes and close(): the file holds exactly `text`
PutFile(f, path, text) ==
    [p \in DOMAIN f \cup {path} |-> IF p = path THEN text ELSE f[p]]

RECURSIVE PutSeq(_, _, _, _)
\* the files names[k] of the directory item_path given the texts[k], in order
PutSeq(f, item_path, names, texts) ==
    IF names = <<>> THEN f
    ELSE PutSeq(PutFile(f, Join(item_path, Head(names)), Head(texts)),
                item_path, Tail(names), Tail(texts))

\* as create_directory, emptying a directory that exists
create_directory_purge(f, path) ==
    LET under(q) == Len(q) > Len(path) /\ SubSeq(q, 1, Len(path)) = path IN
    [dirs |-> {d \in f.dirs : ~under(d)} \cup {path},
     files |-> [q \in {r \in DOMAIN f.files : ~under(r)} |-> f.files[q]]]

\* create_directory(path): os.mkdir(path) unless os.path.isdir(path)
create_directory(f, path) ==
    IF path \in f.dirs THEN f ELSE [f EXCEPT !.dirs = @ \cup {path}]

(***************************************************************************)
(* The inputs                                                              *)
(***************************************************************************)
\* dc.t;file;collection
HeaderA == <<"d", "c", ".", "t", ";">> \o FILE \o <<";">> \o COLLECTION
\* x.t;dc.t;file;file
HeaderB == <<"x", ".", "t", ";", "d", "c", ".", "t", ";">> \o FILE \o <<";">> \o FILE

Lines ==
    { HeaderA,
      HeaderB,
      <<"T", ";", "a", ";", "K">>,
      <<"T", ";", "b", ";", "K", " ", "#", "c", "#", "d">>,
      <<"U", ";", "T", ";", "a", ";", "a">>,
      <<"U", ";", "T", ";", "a", ";", "b">>,
      <<" ", "#", " ", "c">>,
      <<"\"", "T", ";", "a">>,
      <<"T", "\"", ";", "a", ";", "K">> }

RECURSIVE SeqsUpTo(_, _)
\* the sequences over S of length at most n
SeqsUpTo(S, n) ==
    IF n = 0 THEN {<<>>}
    ELSE LET shorter == SeqsUpTo(S, n - 1)
         IN  shorter \cup {Append(q, x) : q \in {r \in shorter : Len(r) = n - 1}, x \in S}

InputFiles == SeqsUpTo(Lines, MaxLines)

\* an output root that does not exist yet
AbsentRoot == [dirs |-> {}, files |-> Empty]

\* an output root that exists and is empty
EmptyRoot == [dirs |-> {<<>>}, files |-> Empty]

\* an output root left by an earlier run of another archive
StaleRoot ==
    [dirs |-> {<<>>, <<ItemDirName(0)>>, <<ItemDirName(8)>>},
     files |-> PutFile(PutFile(PutFile(Empty,
                  <<ItemDirName(0), CONTENTS>>, <<"o", "l", "d", NL>>),
                  <<ItemDirName(0), <<"o", "l", "d">>>>, <<"@", "o", "l", "d">>),
                  <<ItemDirName(8), DUBLIN_CORE_XML>>, <<"o", "l", "d">>)]

(***************************************************************************)
(* DspaceArchive.__init__                                                  *)
(***************************************************************************)
Init ==
    /\ input \in InputFiles
    /\ fs \in {AbsentRoot, EmptyRoot, StaleRoot}
    /\ pc = "new"
    /\ header = <<>>
    /\ rows = <<>>
    /\ items = <<>>
    /\ idx = 0
    /\ fs0 = fs
    /\ written = Empty
    /\ handles = {}
    /\ events = <<>>
    /\ failure = ""
    /\ run = "first"

\* as addItem, keeping only the item added last
addItemReplace(its, item) == <<item>>

\* self.items.append(item)
addItem(its, item) == Append(its, item)

\* lines 21-30: the reader over the stripped lines, header = next(reader),
\* ItemFactory(header)
Open ==
    /\ pc = "new"
    /\ LET records == CsvReader(strip_csv_comments(input))
       IN  IF records = <<>> \/ ~HeaderOK(Head(records))
           THEN /\ pc' = "ctor_failed"
                /\ UNCHANGED <<header, rows>>
           ELSE /\ pc' = "parsing"
                /\ header' = Head(records)
                /\ rows' = Tail(records)
    /\ UNCHANGED <<input, items, idx, fs, fs0, written, handles, events, failure, run>>

\* lines 32-34: one pass of the loop over the reader
AddRow ==
    /\ pc = "parsing"
    /\ rows # <<>>
    /\ IF RowOK(header, Head(rows))
       THEN /\ items' = addItem(items, NewItem(header, Head(rows)))
            /\ rows' = Tail(rows)
            /\ pc' = pc
       ELSE /\ pc' = "ctor_failed"
            /\ UNCHANGED <<items, rows>>
    /\ UNCHANGED <<input, header, idx, fs, fs0, written, handles, events, failure, run>>

\* the reader is exhausted: the constructor returns
EndInit ==
    /\ pc = "parsing"
    /\ rows = <<>>
    /\ pc' = "ready"
    /\ UNCHANGED <<input, header, rows, items, idx, fs, fs0, written, handles,
                   events, failure, run>>

(***************************************************************************)
(* DspaceArchive.write                                                     *)
(***************************************************************************)
Event(kind, i, d) == [kind |-> kind, idx |-> i, dir |-> d]

\* as StageAfter, with the files copied before the manifests are written
StageAfterCopyFirst(stage) ==
    CASE stage = "item_dir" -> "copy"
      [] stage = "copy" -> "contents"
      [] stage = "contents" -> "collections"
      [] stage = "collections" -> "metadata"
      [] stage = "metadata" -> "next"

\* the order of the loop body of write: what follows each step
StageAfter(stage) ==
    CASE stage = "item_dir" -> "contents"
      [] stage = "contents" -> "collections"
      [] stage = "collections" -> "copy"
      [] stage = "copy" -> "metadata"
      [] stage = "metadata" -> "next"

\* control after the step `stage` of the item at idx has returned
Advance(stage) ==
    IF StageAfter(stage) # "next"
    THEN pc' = StageAfter(stage) /\ idx' = idx
    ELSE IF idx < Len(items)
         THEN pc' = "item_dir" /\ idx' = idx + 1
         ELSE pc' = "done" /\ idx' = idx

\* line 53 and the entry of the loop, for a call of write
BeginWrite ==
    /\ fs' = create_directory(fs, <<>>)
    /\ fs0' = fs
    /\ written' = Empty
    /\ events' = <<Event("root", 0, <<>>)>>
    /\ failure' = ""
    /\ IF items = <<>>
       THEN pc' = "done" /\ idx' = 0
       ELSE pc' = "item_dir" /\ idx' = 1
    /\ UNCHANGED <<input, header, rows, items, handles>>

\* archive.write(dir) on the constructed archive
WriteFirst ==
    /\ pc = "ready"
    /\ run' = run
    /\ BeginWrite

\* archive.write(dir) again, into the same output root
WriteSecond ==
    /\ pc \in {"done", "failed"}
    /\ run = "first"
    /\ run' = "second"
    /\ BeginWrite

\* lines 58-60
ItemDir ==
    /\ pc = "item_dir"
    /\ fs' = create_directory(fs, ItemPath(idx - 1))
    /\ events' = Append(events, Event("item_dir", idx, ItemDirName(idx - 1)))
    /\ Advance("item_dir")
    /\ UNCHANGED <<input, header, rows, items, fs0, written, handles, failure, run>>

\* The manifest writers: file `name` of the item's directory is opened for
\* writing, the loop writes `list`, the file is closed.  A write may raise
\* (OSError, UnicodeEncodeError) after `done` passes of the loop, leaving the
\* text of those passes in the file: the handler has no try/finally or with,
\* so close() is then not reached.
WriteManifest(stage, name, list) ==
    LET path == Join(ItemPath(idx - 1), name) IN
    /\ pc = stage
    /\ \E done \in 0..Len(list) :
         LET text == ManifestText(list, done) IN
         /\ fs' = [fs EXCEPT !.files = PutFile(@, path, text)]
         /\ written' = PutFile(written, path, text)
         /\ IF done = Len(list)
            THEN /\ events' = Append(events, Event(stage, idx, ItemDirName(idx - 1)))
                 /\ Advance(stage)
                 /\ UNCHANGED <<handles, failure>>
            ELSE /\ handles' = handles \cup {<<run, path>>}
                 /\ pc' = "failed"
                 /\ failure' = stage
                 /\ UNCHANGED <<events, idx>>
    /\ UNCHANGED <<input, header, rows, items, fs0, run>>

\* lines 101-110
writeContentsFile == WriteManifest("contents", CONTENTS, getFiles(items[idx]))

\* lines 115-124
writeCollectionsFile ==
    WriteManifest("collections", COLLECTIONS, getCollections(items[idx]))

\* how many of the referenced files copy() copies before one is missing
Copyable(paths) ==
    IF \E k \in 1..Len(paths) : paths[k] \notin ExistingSources
    THEN (CHOOSE k \in 1..Len(paths) :
             /\ paths[k] \notin ExistingSources
             /\ \A j \in 1..(k - 1) : paths[j] \in ExistingSources) - 1
    ELSE Len(paths)

\* as CopyRaises, with the error swallowed
CopySwallows(paths) == FALSE

\* the loop of copyFiles is left by the exception of copy()
CopyRaises(paths) == Copyable(paths) < Len(paths)

\* lines 130-133: shutil.copy raises FileNotFoundError at the first reference
\* that does not exist; nothing catches it
copyFiles ==
    LET paths == getFilePaths(items[idx])
        n == Copyable(paths)
        names == [k \in 1..n |-> Basename(paths[k])]
        texts == [k \in 1..n |-> SourceData(paths[k])]
    IN
    /\ pc = "copy"
    /\ fs' = [fs EXCEPT !.files = PutSeq(@, ItemPath(idx - 1), names, texts)]
    /\ written' = PutSeq(written, ItemPath(idx - 1), names, texts)
    /\ IF ~CopyRaises(paths)
       THEN /\ events' = Append(events, Event("copy", idx, ItemDirName(idx - 1)))
            /\ Advance("copy")
            /\ failure' = failure
       ELSE /\ pc' = "failed"
            /\ failure' = "copy"
            /\ UNCHANGED <<events, idx>>
    /\ UNCHANGED <<input, header, rows, items, fs0, handles, run>>

\* lines 135-148: per schema, the XML is computed, the file opened, written
\* and closed.  metadata_file.write may raise (OSError) at the file of schema
\* number done + 1, which then stays open and empty.
writeMetadata ==
    LET schemas == getUsedSchemas(items[idx])
        item_path == ItemPath(idx - 1)
    IN
    /\ pc = "metadata"
    /\ \E done \in 0..Len(schemas) :
         LET names == [k \in 1..done |-> XmlFilename(schemas[k])]
             texts == [k \in 1..done |-> toXML(items[idx], schemas[k])]
         IN
         IF done = Len(schemas)
         THEN /\ fs' = [fs EXCEPT !.files = PutSeq(@, item_path, names, texts)]
              /\ written' = PutSeq(written, item_path, names, texts)
              /\ events' = Append(events, Event("metadata", idx, ItemDirName(idx - 1)))
              /\ Advance("metadata")
              /\ UNCHANGED <<handles, failure>>
         ELSE LET path == Join(item_path, XmlFilename(schemas[done + 1])) IN
              /\ fs' = [fs EXCEPT !.files =
                           PutFile(PutSeq(@, item_path, names, texts), path, <<>>)]
              /\ written' = PutFile(PutSeq(written, item_path, names, texts), path, <<>>)
              /\ handles' = handles \cup {<<run, path>>}
              /\ pc' = "failed"
              /\ failure' = "metadata"
              /\ UNCHANGED <<events, idx>>
    /\ UNCHANGED <<input, header, rows, items, fs0, run>>

Next ==
    \/ Open
    \/ AddRow
    \/ EndInit
    \/ WriteFirst
    \/ WriteSecond
    \/ ItemDir
    \/ writeContentsFile
    \/ writeCollectionsFile
    \/ copyFiles
    \/ writeMetadata

Spec == Init /\ [][Next]_vars

(***************************************************************************)
(* Vocabulary of the properties, stated without the operators of the model *)
(***************************************************************************)
Range(seq) == {seq[k] : k \in 1..Len(seq)}

\* a line survives comment stripping iff some character that is neither
\* white space nor the marker stands before the first marker
Survives(line) ==
    \E k \in 1..Len(line) :
        /\ line[k] \notin {" ", "\n", "#"}
        /\ \A j \in 1..(k - 1) : line[j] # "#"

\* the text of a surviving line: from its first to its last such character
SurvivingText(line) ==
    LET keep == {k \in 1..Len(line) :
                    /\ line[k] \notin {" ", "\n"}
                    /\ \A j \in 1..k : line[j] # "#"}
        lo == CHOOSE k \in keep : \A j \in keep : k <= j
        hi == CHOOSE k \in keep : \A j \in keep : j <= k
    IN  SubSeq(line, lo, hi)

SurvivingIndices(file) == {i \in 1..Len(file) : Survives(file[i])}
NumSurvivors(file) == Cardinality(SurvivingIndices(file))

\* a full-line comment: nothing but white space before its first marker
IsCommentLine(line) ==
    \E k \in 1..Len(line) :
        line[k] = "#" /\ \A j \in 1..(k - 1) : line[j] \in {" ", "\n"}

\* the surviving texts of the file, in order
Survivors(file) == 
    LET F[i \in 0..Len(file)] ==
            IF i = 0 THEN <<>>
            ELSE IF Survives(file[i]) THEN Append(F[i - 1], SurvivingText(file[i]))
            ELSE F[i - 1]
    IN  F[Len(file)]

\* the file without its full-line comments
WithoutComments(file) ==
    LET F[i \in 0..Len(file)] ==
            IF i = 0 THEN <<>>
            ELSE IF IsCommentLine(file[i]) THEN F[i - 1] ELSE Append(F[i - 1], file[i])
    IN  F[Len(file)]

\* a quoted field is open at the end of the text, read on its own
EndsInQuotedField(text) == ProcessChars(ParseReset, text).st = "IN_QUOTED_FIELD"

RECURSIVE StateAtEnd(_, _)
\* the state csv.reader's parser is in after the lines, from state p
StateAtEnd(p, lines) ==
    IF lines = <<>> THEN p.st
    ELSE StateAtEnd(ProcessEOL(ProcessChars(p, Head(lines))), Tail(lines))

\* a well-formed file: every quoted field that is opened is closed
QuotesClosed(file) == StateAtEnd(ParseReset, Survivors(file)) # "IN_QUOTED_FIELD"

\* the fields of a text without quotes: its pieces between the delimiters
PlainFields(text) ==
    LET cuts == {0, Len(text) + 1} \cup {k \in 1..Len(text) : text[k] = ";"}
        F[n \in 0..Len(text) + 1] ==
            IF n = 0 THEN <<>>
            ELSE IF n \in cuts
                 THEN LET prev == CHOOSE c \in cuts : c < n /\ \A d \in cuts : d < n => d <= c
                      IN  Append(F[n - 1], SubSeq(text, prev + 1, n - 1))
                 ELSE F[n - 1]
    IN  F[Len(text) + 1]

\* the item directories under the output root
ItemDirs(f) == {d \in f.dirs : Len(d) = 1}

\* "item_001" ... "item_009", spelled out
SpelledDirName(i) ==
    <<"i", "t", "e", "m", "_", "0", "0",
      <<"1", "2", "3", "4", "5", "6", "7", "8", "9">>[i]>>

\* the lines of a text as a reader sees them: the pieces ended by "\n", and a
\* last piece without one if it is not empty
TextLines(text) ==
    LET F[n \in 0..Len(text)] ==
            IF n = 0 THEN <<<<>>>>
            ELSE IF text[n] = "\n" THEN Append(F[n - 1], <<>>)
            ELSE [F[n - 1] EXCEPT ![Len(F[n - 1])] = Append(@, text[n])]
        all == F[Len(text)]
    IN  IF all[Len(all)] = <<>> THEN SubSeq(all, 1, Len(all) - 1) ELSE all

CountNewlines(text) == Cardinality({k \in 1..Len(text) : text[k] = "\n"})

\* the events of the current call of write of a kind, for an item
Happened(kind, i) == \E k \in 1..Len(events) : events[k].kind = kind /\ events[k].idx = i

\* the constructor has returned
Constructed == pc \notin {"new", "parsing", "ctor_failed"}

EmptyAtStart == fs0.files = Empty /\ fs0.dirs \subseteq {<<>>}

ItemDirCount == Cardinality(ItemDirs(fs))

(***************************************************************************)
(* C1                                                                      *)
(***************************************************************************)
\* C1 as stated: for a valid input (one the constructor accepts, in which
\* every quoted field is closed), after write has run to completion on an
\* initially empty output root, the number of item directories is the number
\* of lines that survive strip_csv_comments minus one (the header).
C1_DirsEqualSurvivingLines ==
    (pc = "done" /\ EmptyAtStart /\ QuotesClosed(input)) =>
        ItemDirCount = NumSurvivors(input) - 1

\* C1 amended: after write has run to completion on an initially empty output
\* root, the number of item directories is the number of records csv.reader
\* reads from the surviving lines minus one (the header record); it is the
\* number of surviving lines minus one whenever no surviving line ends inside
\* an open quoted field.
C1_DirsEqualRecords ==
    (pc = "done" /\ EmptyAtStart) =>
        LET texts == Survivors(input) IN
        /\ ItemDirCount = Len(CsvReader(texts)) - 1
        /\ (\A k \in 1..Len(texts) : ~EndsInQuotedField(texts[k]))
              => ItemDirCount = NumSurvivors(input) - 1

\* two rows became two item directories
C1_Witness ==
    /\ pc = "done" /\ EmptyAtStart
    /\ ItemDirCount = 2
    /\ NumSurvivors(input) = 3

(***************************************************************************)
(* C2                                                                      *)
(***************************************************************************)
\* C2: while the constructor runs and when it has returned, the items are the
\* records after the header, in input order (write does not change them); the
\* item at 0-based position i is written to the directory "item_" followed by
\* i+1 padded to width 3: every step of write for an item uses that one
\* directory, two items never share a directory, and the directories the call
\* creates are those of the items it has reached.
C2_OrderAndDirectories ==
    /\ pc \in {"parsing", "ready", "ctor_failed"} =>
          LET recs == CsvReader(Survivors(input)) IN
          /\ Len(items) <= Len(recs)
          /\ \A k \in 1..Len(items) : items[k] = NewItem(recs[1], recs[k + 1])
          /\ pc = "ready" => Len(items) = Len(recs) - 1
    /\ idx <= Len(items)
    /\ \A k \in 1..Len(events) :
          events[k].kind # "root" => events[k].dir = SpelledDirName(events[k].idx)
    /\ \A k \in 1..Len(events) : \A l \in 1..Len(events) :
          (events[k].kind # "root" /\ events[l].kind # "root") =>
              (events[k].idx = events[l].idx <=> events[k].dir = events[l].dir)
    /\ \A p \in DOMAIN written : \E i \in 1..idx : p[1] = SpelledDirName(i)
    /\ \A d \in fs.dirs \ (fs0.dirs \cup {<<>>}) :
          \E i \in 1..idx : d = <<SpelledDirName(i)>>

\* two items have been written completely
C2_Witness ==
    /\ pc = "done"
    /\ Len(items) = 2
    /\ Happened("metadata", 2)
    /\ items[1] # items[2]

(***************************************************************************)
(* C3 and C10                                                              *)
(***************************************************************************)
ContentsOf(i) == fs.files[<<SpelledDirName(i), CONTENTS>>]
CollectionsOf(i) == fs.files[<<SpelledDirName(i), COLLECTIONS>>]

\* the per-line contract of a manifest: its lines are the entries, in order
PerLine(text, list) ==
    /\ TextLines(text) = list
    /\ Len(TextLines(text)) = Len(list)
    /\ list = <<>> => text = <<>>

\* C3: once writeContentsFile has returned for an item, its contents file has
\* one file name per line in the order of the item's file list, as many lines
\* as the item has references, and is empty for an empty list; the same for
\* writeCollectionsFile and the item's collection names.
C3_ManifestLines ==
    \A i \in 1..Len(items) :
        /\ Happened("contents", i) => PerLine(ContentsOf(i), getFiles(items[i]))
        /\ Happened("collections", i) =>
              PerLine(CollectionsOf(i), getCollections(items[i]))

\* an item with two files and no collection has both manifests
C3_Witness ==
    \E i \in 1..Len(items) :
        /\ Happened("collections", i)
        /\ Len(items[i].files) = 2
        /\ items[i].collections = <<>>
        /\ CollectionsOf(i) = <<>>

\* every entry followed by "\n": n newlines for n entries, the last one last
NewlineAfterEach(text, list) ==
    /\ text = Concat([k \in 1..Len(list) |-> list[k] \o <<"\n">>])
    /\ CountNewlines(text) = Len(list) + CountNewlines(Concat(list))
    /\ Len(list) >= 1 => text[Len(text)] = "\n"

\* C10: the manifests written by writeContentsFile and writeCollectionsFile
\* have a newline after every entry, the last one included.
C10_TrailingNewline ==
    \A i \in 1..Len(items) :
        /\ Happened("contents", i) => NewlineAfterEach(ContentsOf(i), getFiles(items[i]))
        /\ Happened("collections", i) =>
              NewlineAfterEach(CollectionsOf(i), getCollections(items[i]))

\* a contents file of two entries, the second followed by a newline
C10_Witness ==
    \E i \in 1..Len(items) :
        /\ Happened("contents", i)
        /\ Len(getFiles(items[i])) = 2
        /\ CountNewlines(ContentsOf(i)) = 2

(***************************************************************************)
(* C4                                                                      *)
(***************************************************************************)
HasMarker(seqs) == \E k \in 1..Len(seqs) : "#" \in Range(seqs[k])

\* C4: the reader is given the surviving lines only, each cut at its first
\* marker and trimmed: the header is the first record of the surviving texts
\* (the fields of the first surviving text when it has no quote), the rows
\* are the records after it, no field holds a marker, and the archive the
\* constructor returns is the one of the same file without its full-line
\* comments.
C4_StrippedBeforeParsing ==
    LET texts == Survivors(input)
        recs == CsvReader(texts)
        plain == CsvReader(Survivors(WithoutComments(input)))
    IN
    /\ pc \in {"parsing", "ready"} =>
          /\ header = recs[1]
          /\ Len(items) + Len(rows) = Len(recs) - 1
          /\ rows = SubSeq(recs, Len(recs) - Len(rows) + 1, Len(recs))
          /\ "\"" \notin Range(texts[1]) => header = PlainFields(texts[1])
    /\ ~HasMarker(header)
    /\ \A k \in 1..Len(rows) : ~HasMarker(rows[k])
    /\ \A k \in 1..Len(items) :
          /\ ~HasMarker(items[k].files)
          /\ ~HasMarker(items[k].collections)
          /\ \A m \in 1..Len(items[k].metadata) : "#" \notin Range(items[k].metadata[m].value)
    /\ pc = "ready" =>
          /\ header = plain[1]
          /\ Len(items) = Len(plain) - 1
          /\ \A k \in 1..Len(items) : items[k] = NewItem(plain[1], plain[k + 1])

\* a comment line before the header and a row cut at its marker: one item
C4_Witness ==
    /\ pc = "ready"
    /\ Len(input) = 3
    /\ IsCommentLine(input[1])
    /\ "#" \in Range(input[3]) /\ ~IsCommentLine(input[3])
    /\ Len(items) = 1

(***************************************************************************)
(* C5                                                                      *)
(***************************************************************************)
EndsWithXml(name) ==
    Len(name) >= 4 /\ SubSeq(name, Len(name) - 3, Len(name)) = <<".", "x", "m", "l">>

\* the file name the schema is to be written to, spelled out
SpelledXmlName(schema) ==
    IF schema = <<"d", "c">>
    THEN <<"d", "u", "b", "l", "i", "n", "_", "c", "o", "r", "e", ".", "x", "m", "l">>
    ELSE <<"m", "e", "t", "a", "d", "a", "t", "a", "_">> \o schema \o <<".", "x", "m", "l">>

SchemasOf(item) == {item.metadata[k].schema : k \in 1..Len(item.metadata)}

\* C5: once writeMetadata has returned for an item, the metadata files the
\* call has written to its directory are exactly one per schema of the item:
\* dublin_core.xml for "dc", metadata_<s>.xml for any other schema s, each
\* holding that schema's XML, and as many files as schemas.
C5_OneFilePerSchema ==
    \A i \in 1..Len(items) :
        Happened("metadata", i) =>
            LET dir == SpelledDirName(i)
                used == SchemasOf(items[i])
                xmls == {p \in DOMAIN written : p[1] = dir /\ EndsWithXml(p[2])}
            IN
            /\ xmls = {<<dir, SpelledXmlName(s)>> : s \in used}
            /\ Cardinality(xmls) = Cardinality(used)
            /\ \A s \in used : fs.files[<<dir, SpelledXmlName(s)>>] = toXML(items[i], s)

\* an item of two schemas, "dc" one of them, has its two metadata files
C5_Witness ==
    \E i \in 1..Len(items) :
        /\ Happened("metadata", i)
        /\ Cardinality(SchemasOf(items[i])) = 2
        /\ <<"d", "c">> \in SchemasOf(items[i])

(***************************************************************************)
(* C6                                                                      *)
(***************************************************************************)
MissingRefs(i) == {k \in 1..Len(items[i].files) : items[i].files[k] \notin ExistingSources}
FirstMissing(i) == CHOOSE k \in MissingRefs(i) : \A j \in MissingRefs(i) : k <= j

\* the copy step of item i has been executed by the current call of write
CopyExecuted(i) == Happened("collections", i) /\ ~(pc = "copy" /\ idx = i)

HasFile(dir, name, text) ==
    /\ <<dir, name>> \in DOMAIN fs.files
    /\ fs.files[<<dir, name>>] = text

\* the complete output of item i is in place
CompleteOutput(i) ==
    LET dir == SpelledDirName(i) IN
    /\ <<dir>> \in fs.dirs
    /\ HasFile(dir, CONTENTS, Concat([k \in 1..Len(items[i].files) |->
                                         items[i].files[k] \o <<"\n">>]))
    /\ HasFile(dir, COLLECTIONS, Concat([k \in 1..Len(items[i].collections) |->
                                            items[i].collections[k] \o <<"\n">>]))
    /\ \A k \in 1..Len(items[i].files) :
          HasFile(dir, items[i].files[k], SourceData(items[i].files[k]))
    /\ \A s \in SchemasOf(items[i]) : HasFile(dir, SpelledXmlName(s), toXML(items[i], s))

\* the output of item i up to the copy that failed is in place
PartialOutput(i) ==
    LET dir == SpelledDirName(i) IN
    /\ <<dir>> \in fs.dirs
    /\ HasFile(dir, CONTENTS, Concat([k \in 1..Len(items[i].files) |->
                                         items[i].files[k] \o <<"\n">>]))
    /\ HasFile(dir, COLLECTIONS, Concat([k \in 1..Len(items[i].collections) |->
                                            items[i].collections[k] \o <<"\n">>]))
    /\ \A k \in 1..(FirstMissing(i) - 1) :
          HasFile(dir, items[i].files[k], SourceData(items[i].files[k]))

\* C6: when the copy step has been executed for an item that references a
\* file missing from the input's directory, write has raised there (the error
\* is not swallowed), nothing of a later item has been done or written and no
\* directory of a later item created, and the output of the items before and
\* the partial output of the item itself are in place.
C6_MissingFileIsFatal ==
    \A i \in 1..Len(items) :
        (CopyExecuted(i) /\ MissingRefs(i) # {}) =>
            /\ pc = "failed" /\ failure = "copy" /\ idx = i
            /\ ~Happened("copy", i) /\ ~Happened("metadata", i)
            /\ \A k \in 1..Len(events) : events[k].idx <= i
            /\ \A p \in DOMAIN written : \E j \in 1..i : p[1] = SpelledDirName(j)
            /\ \A j \in (i + 1)..Len(items) :
                  <<SpelledDirName(j)>> \in fs.dirs => <<SpelledDirName(j)>> \in fs0.dirs
            /\ \A j \in 1..(i - 1) : CompleteOutput(j)
            /\ PartialOutput(i)
            /\ <<SpelledDirName(i), items[i].files[FirstMissing(i)]>> \notin DOMAIN written

\* the first of two items fails at its second file, the first file copied
C6_Witness ==
    /\ pc = "failed" /\ failure = "copy"
    /\ idx = 1
    /\ Len(items) = 2
    /\ FirstMissing(1) = 2
    /\ <<SpelledDirName(2)>> \notin fs.dirs

(***************************************************************************)
(* C7                                                                      *)
(***************************************************************************)
\* C7: a call of write into an output root that exists deletes nothing: every
\* directory present when the call began is still present, every file
\* present then that the call has not written is present and unchanged, and
\* every file the call has written holds what the call wrote; when the call
\* has run to completion, the output of every item is in place.
C7_NothingDeleted ==
    /\ fs0.dirs \subseteq fs.dirs
    /\ \A p \in DOMAIN fs0.files :
          /\ p \in DOMAIN fs.files
          /\ p \notin DOMAIN written => fs.files[p] = fs0.files[p]
    /\ \A p \in DOMAIN written : p \in DOMAIN fs.files /\ fs.files[p] = written[p]
    /\ (pc = "done" /\ events # <<>>) => \A i \in 1..Len(items) : CompleteOutput(i)

\* the second call has run to completion over the output of a first call that
\* failed: a file of before is untouched, another has new content
C7_Witness ==
    /\ run = "second" /\ pc = "done"
    /\ \E p \in DOMAIN fs0.files : p \notin DOMAIN written
    /\ \E p \in DOMAIN fs0.files \cap DOMAIN written : fs.files[p] # fs0.files[p]
    /\ <<SpelledDirName(1)>> \in fs0.dirs

(***************************************************************************)
(* C8                                                                      *)
(***************************************************************************)
\* C8: whenever writeContentsFile, writeCollectionsFile or writeMetadata has
\* returned or raised, no file handle it opened is still open.
C8_HandlesReleased == handles = {}

(***************************************************************************)
(* C9                                                                      *)
(***************************************************************************)
LoopBody == <<"item_dir", "contents", "collections", "copy", "metadata">>

\* C9: nothing is written before the constructor has returned, and it returns
\* with every record after the header parsed into an item; the
\* steps of write come in the order root, then per item in input order:
\* directory, contents, collections, copies, metadata; and when a copy has
\* failed for an item, its directory holds the complete contents and
\* collections manifests, the contents manifest names the missing file, and
\* the call has written no metadata file there.
C9_LinearPass ==
    /\ (~Constructed \/ pc = "ready") =>
          /\ events = <<>> /\ written = Empty
          /\ fs \in {AbsentRoot, EmptyRoot, StaleRoot}
    /\ pc = "ready" => Len(items) = Len(CsvReader(Survivors(input))) - 1
    /\ events # <<>> => (Constructed /\ rows = <<>> /\ idx <= Len(items))
    /\ \A k \in 1..Len(events) :
          IF k = 1 THEN events[k].kind = "root"
          ELSE /\ events[k].idx = ((k - 2) \div 5) + 1
               /\ events[k].kind = LoopBody[((k - 2) % 5) + 1]
    /\ (pc = "failed" /\ failure = "copy") =>
          LET dir == SpelledDirName(idx)
              item == items[idx]
          IN
          /\ Len(events) = 1 + 5 * (idx - 1) + 3
          /\ HasFile(dir, CONTENTS,
                     Concat([k \in 1..Len(item.files) |-> item.files[k] \o <<"\n">>]))
          /\ HasFile(dir, COLLECTIONS,
                     Concat([k \in 1..Len(item.collections) |->
                                item.collections[k] \o <<"\n">>]))
          /\ \E k \in 1..Len(TextLines(fs.files[<<dir, CONTENTS>>])) :
                TextLines(fs.files[<<dir, CONTENTS>>])[k] \notin ExistingSources
          /\ \A p \in DOMAIN written : p[1] = dir => ~EndsWithXml(p[2])

\* the copy fails for the second item, after the first was written completely
C9_Witness ==
    /\ pc = "failed" /\ failure = "copy"
    /\ idx = 2
    /\ Happened("metadata", 1)

====
